---- MODULE Spec2Model ----
(***************************************************************************)
(* A model of myShell (src/main.cpp): the read loop of main, the segmenter *)
(* splitByPipe, the tokenizer tokenize, the launcher run_cmd and the       *)
(* processes and descriptors they create.                                  *)
(*                                                                         *)
(* A std::string is a sequence of one-character strings.  Positions are    *)
(* 0-based as in the source; At and SubStr do the index shift.             *)
(***************************************************************************)
EXTENDS Integers, Sequences, FiniteSets, TLC

VARIABLES
  pc,             \* position of the shell (parent) in main
  input,          \* main: std::string input
  piped,          \* main: std::vector<std::string> piped
  is_background,  \* main: bool is_background
  i,              \* main: loop counter of the pipe loop
  fd,             \* main: int fd[2]; << >> while no pipe(fd) has written it
  childpid,       \* main: pid_t childpid (0 while unassigned)
  fds,            \* descriptor table of the shell, fds[d+1] is descriptor d
  procs,          \* every child forked so far, procs[p] is the child with pid p
  err,            \* error codes printed by print_error for the current line
  nread           \* number of pipeline lines read so far

vars == <<pc, input, piped, is_background, i, fd, childpid, fds, procs, err, nread>>

----------------------------------------------------------------------------
(* Bounds *)

MaxLines == 2      \* pipeline lines read in one run of the shell
MaxProcs == 3      \* processes the system lets the shell create
MaxSegLen == 5     \* length of the lines SpecSeg enumerates
MaxCmdLen == 5     \* length of the lines SpecTok enumerates

----------------------------------------------------------------------------
(* std::string *)

\* size_t is 64 bits wide; an unsigned subtraction below zero wraps to the
\* largest value.  TLC's integers are 32 bits wide, so the largest TLC
\* integer stands for 2^64-1: all that matters is that it exceeds every
\* index.
SIZE_MAX == 2147483647

\* n - 1 computed in size_t (input.size()-1, piped.size()-1)
SizeMinus1(n) == IF n = 0 THEN SIZE_MAX ELSE n - 1

NUL == "NUL"

\* s[k] of a std::string: s[size()] is the terminating NUL
At(s, k) == IF k < Len(s) THEN s[k + 1] ELSE NUL

\* s.substr(pos, n): n is a size_t, so a negative n is a huge count
SubStr(s, pos, n) ==
  LET m == IF n < 0 \/ n > Len(s) - pos THEN Len(s) - pos ELSE n
  IN  [k \in 1..m |-> s[pos + k]]

\* s.substr(pos)
SubStrFrom(s, pos) == SubStr(s, pos, Len(s) - pos)

\* !s.rfind(prefix, 0): s starts with prefix
StartsWith(s, prefix) ==
  /\ Len(s) >= Len(prefix)
  /\ SubStr(s, 0, Len(prefix)) = prefix

----------------------------------------------------------------------------
(* splitByPipe *)

\* while (i < input.size() && input[++i] != '\"');  returns the final i
RECURSIVE SkipQuote(_, _)
SkipQuote(s, k) ==
  IF k < Len(s)
  THEN IF At(s, k + 1) # "\"" THEN SkipQuote(s, k + 1) ELSE k + 1
  ELSE k

\* the same scan without the quote branch
RECURSIVE SplitLoopNoQuote(_, _, _, _, _)
SplitLoopNoQuote(s, k, start, output, background) ==
  IF ~(k < Len(s))
  THEN [start |-> start, output |-> output, background |-> background]
  ELSE
    LET bg == background \/ At(s, k) = "&"
    IN  IF At(s, k) \in {"|", ";"}
        THEN LET s1 == k + 1
                 s2 == IF s1 < Len(s) /\ At(s, s1) = " " THEN s1 + 1 ELSE s1
             IN  SplitLoopNoQuote(s, k + 1, s2,
                                  Append(output, SubStr(s, start, k - start)), bg)
        ELSE SplitLoopNoQuote(s, k + 1, start, output, bg)

\* the for loop of splitByPipe, from position k on
RECURSIVE SplitLoop(_, _, _, _, _)
SplitLoop(s, k, start, output, background) ==
  IF ~(k < Len(s))
  THEN [start |-> start, output |-> output, background |-> background]
  ELSE
    LET bg == background \/ At(s, k) = "&"
    IN  IF At(s, k) \in {"|", ";"}
        THEN LET s1 == k + 1
                 s2 == IF s1 < Len(s) /\ At(s, s1) = " " THEN s1 + 1 ELSE s1
             IN  SplitLoop(s, k + 1, s2,
                           Append(output, SubStr(s, start, k - start)), bg)
        ELSE IF At(s, k) = "\""
        THEN SplitLoop(s, SkipQuote(s, k) + 1, start, output, bg)
        ELSE SplitLoop(s, k + 1, start, output, bg)

\* the marker splitByPipe appends: "&" for background, "-" otherwise
Marker(background) == IF background THEN <<"&">> ELSE <<"-">>

splitByPipe(s) ==
  LET r    == SplitLoop(s, 0, 0, << >>, FALSE)
      rest == IF r.start < SizeMinus1(Len(s))
              THEN Append(r.output, SubStrFrom(s, r.start))
              ELSE r.output
  IN  Append(rest, Marker(r.background))

\* piped.pop_back(); splitByPipe never returns an empty vector
PopBack(v) == SubSeq(v, 1, Len(v) - 1)

----------------------------------------------------------------------------
(* tokenize *)

\* while (i < input.size() && input[i] != '\"') i++;  returns the final i
RECURSIVE FindQuote(_, _)
FindQuote(s, k) ==
  IF k < Len(s) /\ At(s, k) # "\"" THEN FindQuote(s, k + 1) ELSE k

\* the for loop of tokenize, from position k on
RECURSIVE TokLoop(_, _, _, _)
TokLoop(s, k, start, tokens) ==
  IF ~(k < Len(s))
  THEN [start |-> start, tokens |-> tokens]
  ELSE
    IF At(s, k) = " "
    THEN TokLoop(s, k + 1, k + 1, Append(tokens, SubStr(s, start, k - start)))
    ELSE IF At(s, k) = "\""
    THEN LET st1 == k + 1
             end == FindQuote(s, st1)
             st2 == end + 1
             st3 == IF st2 < Len(s) /\ At(s, st2) = " " THEN st2 + 1 ELSE st2
         IN  TokLoop(s, st2 + 1, st3, Append(tokens, SubStr(s, st1, end - st1)))
    ELSE TokLoop(s, k + 1, start, tokens)

tokenize(s) ==
  LET r == TokLoop(s, 0, 0, << >>)
  IN  IF r.start < SizeMinus1(Len(s))
      THEN Append(r.tokens, SubStrFrom(s, r.start))
      ELSE r.tokens

----------------------------------------------------------------------------
(* Descriptors *)

\* what a descriptor refers to: the terminal, one end of a pipe, a file
Obj(kind, id, path, flags, mode) ==
  [kind |-> kind, id |-> id, path |-> path, flags |-> flags, mode |-> mode]

Closed  == Obj("closed", <<0, 0>>, << >>, {}, 0)
TermIn  == Obj("stdin", <<0, 0>>, << >>, {}, 0)
TermOut == Obj("stdout", <<0, 0>>, << >>, {}, 0)
TermErr == Obj("stderr", <<0, 0>>, << >>, {}, 0)
PipeR(id) == Obj("pipe_r", id, << >>, {}, 0)
PipeW(id) == Obj("pipe_w", id, << >>, {}, 0)
File(path, flags, mode) == Obj("file", <<0, 0>>, path, flags, mode)

STDIN_FILENO == 0
STDOUT_FILENO == 1

IsOpen(t, d) == d >= 0 /\ d < Len(t) /\ t[d + 1].kind # "closed"

\* the descriptor number the next open, dup or pipe returns
LowestFree(t) ==
  IF \E d \in 0..(Len(t) - 1) : ~IsOpen(t, d)
  THEN CHOOSE d \in 0..(Len(t) - 1) :
         ~IsOpen(t, d) /\ \A e \in 0..(d - 1) : IsOpen(t, e)
  ELSE Len(t)

SetFd(t, d, o) == IF d < Len(t) THEN [t EXCEPT ![d + 1] = o] ELSE Append(t, o)

\* close(d): EBADF, and no effect, when d is not open
Close(t, d) == IF IsOpen(t, d) THEN [t EXCEPT ![d + 1] = Closed] ELSE t

\* dup2(old, new): EBADF, and no effect, when old is not open
Dup2(t, old, new) == IF IsOpen(t, old) THEN SetFd(t, new, t[old + 1]) ELSE t

\* dup(old)
Dup(t, old) == SetFd(t, LowestFree(t), t[old + 1])

\* pipe(fd): two new descriptors, read end first
Pipe(t, id) ==
  LET r  == LowestFree(t)
      t1 == SetFd(t, r, PipeR(id))
      w  == LowestFree(t1)
  IN  [t |-> SetFd(t1, w, PipeW(id)), fd |-> <<r, w>>]

\* <fcntl.h> and <sys/stat.h> of the build (Linux): the bits of each macro
\* the source ORs into a flag word.  The S_I* macros are permission bits;
\* ORed into the flags of open they are read as the open flags of the same
\* value.
BitsOf ==
  [O_RDONLY |-> {}, O_WRONLY |-> {1}, O_CREAT |-> {64}, O_EXCL |-> {128},
   O_NOCTTY |-> {256}, O_TRUNC |-> {512}, O_APPEND |-> {1024},
   S_IRUSR |-> {256}, S_IWUSR |-> {128}, S_IRGRP |-> {32}, S_IROTH |-> {4}]

\* a | b | ... of the macros in flags, as the set of bits that are set
FlagWord(flags) == UNION {BitsOf[m] : m \in flags}

\* the flag word has the open flag m
HasFlag(word, m) == BitsOf[m] # {} /\ BitsOf[m] \subseteq word

\* whether open(path, flags, mode) succeeds: an existing file is refused
\* (EEXIST) under O_CREAT | O_EXCL, an absent one (ENOENT) without O_CREAT
OpenOk(flags, exists) ==
  LET word == FlagWord(flags)
  IN  IF exists
      THEN ~(HasFlag(word, "O_CREAT") /\ HasFlag(word, "O_EXCL"))
      ELSE HasFlag(word, "O_CREAT")

\* the bits set in n
Bits(n) == {2^k : k \in {j \in 0..11 : (n \div 2^j) % 2 = 1}}

\* the file mode creation mask the shell runs under: 022
Umask == {16, 2}

\* the permission bits of a file that open(path, flags, mode) creates
CreatedMode(mode) == Bits(mode) \ Umask

\* open(path, flags, mode): -1 when the open fails
Open(t, path, flags, mode, ok) ==
  IF ok
  THEN [t |-> SetFd(t, LowestFree(t), File(path, flags, mode)), fd |-> LowestFree(t)]
  ELSE [t |-> t, fd |-> -1]

\* the descriptors of the shell when main starts, and after line 56
StdFds == <<TermIn, TermOut, TermErr>>
ORIG_STDIN == LowestFree(StdFds)
InitFds == Dup(StdFds, STDIN_FILENO)

\* The value read from an int that was never written is indeterminate.  As
\* a descriptor number it either names no open descriptor (-1 stands for
\* all of those) or names one of the open ones.
Garbage(t) == {-1} \cup {d \in 0..(Len(t) - 1) : IsOpen(t, d)}

\* fd[k-1] as the shell reads it
FdRead(f, k, t) == IF f = << >> THEN Garbage(t) ELSE {f[k]}

----------------------------------------------------------------------------
(* run_cmd *)

FILEFLAGS ==
  {"O_CREAT", "O_WRONLY", "O_TRUNC", "S_IRUSR", "S_IWUSR", "S_IRGRP", "S_IROTH"}
FILEFLAGS_APPEND ==
  {"O_APPEND", "O_WRONLY", "S_IRUSR", "S_IWUSR", "S_IRGRP", "S_IROTH"}
RW_PERMS == 438   \* 0666

NULL == <<"NULL">>

\* tokenized[tokenized.size()-2]
SecondToLast(tokenized) == tokenized[Len(tokenized) - 1]

\* line 168
FFlagsOf(tokenized) ==
  IF Len(tokenized) > 1 /\ SecondToLast(tokenized) = <<">", ">">>
  THEN FILEFLAGS_APPEND ELSE FILEFLAGS

\* line 170
IsOutRedirect(tokenized) ==
  Len(tokenized) > 1 /\ At(SecondToLast(tokenized), 0) = ">"

\* line 178
IsInRedirect(tokenized) ==
  Len(tokenized) > 1 /\ SecondToLast(tokenized) = <<"<">>

\* ARGC with the input branch forgetting its ARGC -= 2
ArgcOfKeepInput(tokenized) ==
  Len(tokenized) + 1 - (IF IsOutRedirect(tokenized) THEN 2 ELSE 0)

\* lines 163, 175, 183
ArgcOf(tokenized) ==
  Len(tokenized) + 1
    - (IF IsOutRedirect(tokenized) THEN 2 ELSE 0)
    - (IF IsInRedirect(tokenized) THEN 2 ELSE 0)

\* lines 188-192: char* args[ARGC], the last one NULL
ArgsOf(tokenized) ==
  LET ARGC == ArgcOf(tokenized)
  IN  [k \in 1..ARGC |-> IF k = ARGC THEN NULL ELSE tokenized[k]]

\* lines 172-174
RedirectOut(t, tokenized, exists) ==
  LET t1 == Close(t, STDOUT_FILENO)
      o  == Open(t1, tokenized[Len(tokenized)], FFlagsOf(tokenized), RW_PERMS,
                 OpenOk(FFlagsOf(tokenized), exists))
  IN  Dup2(o.t, o.fd, STDOUT_FILENO)

\* lines 180-182
RedirectIn(t, tokenized, exists) ==
  LET t1 == Close(t, STDIN_FILENO)
      o  == Open(t1, tokenized[Len(tokenized)], {"O_RDONLY"}, 0,
                 OpenOk({"O_RDONLY"}, exists))
  IN  Dup2(o.t, o.fd, STDIN_FILENO)

\* whether the open of lines 173 or 181 succeeds; TRUE when neither runs
OpenOkOf(tokenized, exists) ==
  IF IsOutRedirect(tokenized) THEN OpenOk(FFlagsOf(tokenized), exists)
  ELSE IF IsInRedirect(tokenized) THEN OpenOk({"O_RDONLY"}, exists)
  ELSE TRUE

\* the programs execvp finds on the PATH
Programs ==
  { <<"a", "b">>, <<"e", "f">>, <<"a", "a">>,
    <<"l", "s">>, <<"e", "c", "h", "o">> }

\* line 195: execvp(args[0], args) replaces the image ("exec") or returns -1
\* ("failed").  With args[0] == NULL the call is undefined: the C library
\* reads through the null pointer and the child is killed by SIGSEGV
\* ("killed"), or the call fails with EFAULT.
ExecOutcomes(args) ==
  IF args[1] = NULL THEN {"killed", "failed"}
  ELSE IF args[1] \in Programs THEN {"exec"}
  ELSE {"failed"}

\* exit(n): the status the parent sees is n & 0377
ExitStatus(n) == n % 256

\* run_cmd in a child whose descriptors are t; exists tells whether the
\* target of a redirect exists, image is the outcome of execvp
run_cmd(cmd, background, t, exists, image) ==
  LET tokenized == tokenize(cmd)
      t1 == IF IsOutRedirect(tokenized) THEN RedirectOut(t, tokenized, exists) ELSE t
      t2 == IF IsInRedirect(tokenized) THEN RedirectIn(t1, tokenized, exists) ELSE t1
  IN  [own_pgrp  |-> background,
       tokenized |-> tokenized,
       redir_out |-> IsOutRedirect(tokenized),
       redir_in  |-> IsInRedirect(tokenized),
       exists    |-> exists,
       open_ok   |-> OpenOkOf(tokenized, exists),
       FFLAGS    |-> FFlagsOf(tokenized),
       ARGC      |-> ArgcOf(tokenized),
       args      |-> ArgsOf(tokenized),
       fds       |-> t2,
       image     |-> image,
       err       |-> IF image = "failed" THEN <<1>> ELSE << >>,   \* line 199
       status    |-> IF image = "failed" THEN ExitStatus(-1) ELSE 0]
                     \* line 200; 0 in a child that never reaches it

----------------------------------------------------------------------------
(* main: the lines the user types *)

L_exit  == <<"e", "x", "i", "t">>
L_clear == <<"c", "l", "e", "a", "r">>
L_cls   == <<"c", "l", "s">>
L_cd    == <<"c", "d">>
L_cdsp  == <<"c", "d", " ">>
L_pwd   == <<"p", "w", "d">>
L_pwdsp == <<"p", "w", "d", " ">>
L_color == <<"c", "o", "l", "o", "r">>

\* what the if-chain of lines 77-105 does with a line
Dispatch(s) ==
  IF s = L_exit THEN "exit"
  ELSE IF s = L_clear \/ s = L_cls THEN "clear"   \* clear_screen(); continue
  ELSE IF s = L_cd THEN "pipeline"      \* handle_cd(""), and no continue
  ELSE IF StartsWith(s, L_cdsp) THEN "continue"
  ELSE IF s = L_pwd \/ StartsWith(s, L_pwdsp) THEN "continue"
  ELSE IF StartsWith(s, L_color)
  THEN IF 6 > Len(s) THEN "throw" ELSE "continue"   \* input.substr(6)
  ELSE "pipeline"

\* lines typed at the prompt of the shell
BuiltinLines ==
  { L_exit, L_cls, L_pwd, L_color,
    <<"c", "d", " ", "x">> }                                 \* cd x

PipelineLines ==
  { <<"a", "b">>,                                            \* ab
    <<"a", "b", " ", ">", " ", "f", "f", " ", "&">>,         \* ab > ff &
    <<"a", "b", " ", "<", " ", "f", "f", "|", "c", "d">>,    \* ab < ff|cd
    <<"a", "b", "|", "c", "d", "|", "e", "f">>,              \* ab|cd|ef
    <<"a">>,                                                 \* a
    L_cd }                                                   \* cd

Lines == BuiltinLines \cup PipelineLines

----------------------------------------------------------------------------
(* main: the pipe loop *)

\* i < piped.size() - 1, compared in size_t
LoopCond(k, v) == k < SizeMinus1(Len(v))

LoopPc(k, v) == IF LoopCond(k, v) THEN "loop" ELSE "last"

\* Reading piped[k] or piped.back() of a vector without that element is
\* undefined: the child gets some string.
IndetCmds == {<< >>, <<"-">>}
SegAt(v, k) == IF k < Len(v) THEN {v[k + 1]} ELSE IndetCmds
SegBack(v) == IF Len(v) > 0 THEN {v[Len(v)]} ELSE IndetCmds

\* fork() can fail at any time, and does when the system has no process left
ForkOutcomes == IF Len(procs) < MaxProcs THEN {TRUE, FALSE} ELSE {FALSE}

\* whether the target of a redirect exists is up to the file system; a
\* command without redirection names no file
TargetExists(cmd) ==
  IF IsOutRedirect(tokenize(cmd)) \/ IsInRedirect(tokenize(cmd))
  THEN {TRUE, FALSE} ELSE {TRUE}

\* the child created by a fork of the shell for segment number k
Child(cmd, k, t, exists, image) ==
  [line |-> nread, idx |-> k, nseg |-> Len(piped), cmd |-> cmd,
   bg |-> is_background, in0 |-> t[STDIN_FILENO + 1], out0 |-> t[STDOUT_FILENO + 1],
   st |-> "running"]
  @@ run_cmd(cmd, is_background, t, exists, image)

\* the parent without its dup2(fd[0], STDIN_FILENO)
ParentWireNoDup(t, f) == Close(t, f[2])

\* lines 136-137, the parent after a fork in the loop
ParentWire(t, f) == Close(Dup2(t, f[1], STDIN_FILENO), f[2])

\* line 130, the child after a fork in the loop
ChildWire(t, f) == Dup2(t, f[2], STDOUT_FILENO)

\* line 66: waitid(P_PID, 0, &status, WNOHANG).  The options name none of
\* WEXITED, WSTOPPED, WCONTINUED, and no child has process id 0: the call
\* fails with EINVAL and collects no child.
WaitidNoHang(ps) == ps

\* lines 296-302: clear_screen() runs std::system("clear"), which forks a
\* child for the command and waits until that child has ended; when the
\* child cannot be created it returns at once
SystemOutcomes == {TRUE, FALSE}

\* the shell waiting after every last fork
AfterLastForkAlwaysWait(background) == "wait"

\* line 148: the shell waits only for a foreground pipeline
AfterLastFork(background) == IF background THEN "close" ELSE "wait"

\* lines 64-112: one pass from the top of the loop to the pipe loop
ReadLine(line) ==
  /\ pc = "prompt"
  /\ Dispatch(line) = "pipeline" => nread < MaxLines
  /\ procs' = WaitidNoHang(procs)
  /\ fds' = Dup2(fds, ORIG_STDIN, STDIN_FILENO)
  /\ input' = line
  /\ err' = << >>
  /\ CASE Dispatch(line) = "exit" ->
            /\ pc' = "exited"
            /\ UNCHANGED <<piped, is_background, i, fd, childpid, nread>>
       [] Dispatch(line) = "throw" ->
            /\ pc' = "terminated"
            /\ UNCHANGED <<piped, is_background, i, fd, childpid, nread>>
       [] Dispatch(line) = "continue" ->
            /\ pc' = "prompt"
            /\ UNCHANGED <<piped, is_background, i, fd, childpid, nread>>
       [] Dispatch(line) = "clear" ->
            /\ \E forked \in SystemOutcomes :
                 pc' = IF forked THEN "system" ELSE "prompt"
            /\ UNCHANGED <<piped, is_background, i, fd, childpid, nread>>
       [] Dispatch(line) = "pipeline" ->
            LET out == splitByPipe(line)
            IN  /\ is_background' = (out[Len(out)] = <<"&">>)
                /\ piped' = PopBack(out)
                /\ i' = 0
                /\ fd' = << >>
                /\ childpid' = 0
                /\ nread' = nread + 1
                /\ pc' = LoopPc(0, PopBack(out))

\* lines 117-139: one iteration of the pipe loop
LoopStep ==
  /\ pc = "loop"
  /\ LET p == Pipe(fds, <<nread, i>>)
     IN \E forked \in ForkOutcomes :
          IF forked
          THEN \E cmd \in SegAt(piped, i) : \E exists \in TargetExists(cmd) :
               \E image \in ExecOutcomes(ArgsOf(tokenize(cmd))) :
                 /\ procs' = Append(procs, Child(cmd, i, ChildWire(p.t, p.fd),
                                                 exists, image))
                 /\ childpid' = Len(procs) + 1
                 /\ fds' = ParentWire(p.t, p.fd)
                 /\ fd' = p.fd
                 /\ i' = i + 1
                 /\ pc' = LoopPc(i + 1, piped)
                 /\ UNCHANGED err
          ELSE /\ childpid' = -1
               /\ err' = Append(err, 0)
               /\ fds' = p.t
               /\ fd' = p.fd
               /\ pc' = "last"
               /\ UNCHANGED <<procs, i>>
  /\ UNCHANGED <<input, piped, is_background, nread>>

\* lines 142-147: the last fork
LastFork ==
  /\ pc = "last"
  /\ \E g \in FdRead(fd, 1, fds), forked \in ForkOutcomes :
       LET t == Dup2(fds, g, STDIN_FILENO)
       IN  /\ fds' = t
           /\ IF forked
              THEN \E cmd \in SegBack(piped) : \E exists \in TargetExists(cmd) :
                   \E image \in ExecOutcomes(ArgsOf(tokenize(cmd))) :
                     /\ procs' = Append(procs, Child(cmd, Len(piped) - 1, t,
                                                     exists, image))
                     /\ childpid' = Len(procs) + 1
                     /\ UNCHANGED err
              ELSE /\ childpid' = -1
                   /\ err' = Append(err, 0)
                   /\ UNCHANGED procs
  /\ pc' = AfterLastFork(is_background)
  /\ UNCHANGED <<input, piped, is_background, i, fd, nread>>

Unreaped == {p \in 1..Len(procs) : procs[p].st # "reaped"}
Zombies  == {p \in 1..Len(procs) : procs[p].st = "zombie"}

\* line 148: wait(NULL) returns with any child that has exited, or at once
\* when the shell has no child
Wait ==
  /\ pc = "wait"
  /\ \/ /\ Unreaped = {}
        /\ UNCHANGED procs
     \/ \E p \in Zombies : procs' = [procs EXCEPT ![p].st = "reaped"]
  /\ pc' = "close"
  /\ UNCHANGED <<input, piped, is_background, i, fd, childpid, fds, err, nread>>

\* line 149: close(fd[1]); at line 150 the loop body ends and its locals
\* piped, childpid and fd go out of scope
CloseFd ==
  /\ pc = "close"
  /\ \E g \in FdRead(fd, 2, fds) : fds' = Close(fds, g)
  /\ fd' = << >>
  /\ piped' = << >>
  /\ childpid' = 0
  /\ i' = 0
  /\ pc' = "prompt"
  /\ UNCHANGED <<input, is_background, procs, err, nread>>

\* lines 81-82: the child of std::system has ended, system returns and the
\* loop continues
ClearScreenReturn ==
  /\ pc = "system"
  /\ pc' = "prompt"
  /\ UNCHANGED <<input, piped, is_background, i, fd, childpid, fds, procs, err, nread>>

\* a child ends: its program exits, execvp failed and it calls exit(-1), or
\* it is killed inside execvp
ChildExit(p) ==
  /\ procs[p].st = "running"
  /\ procs' = [procs EXCEPT ![p].st = "zombie"]
  /\ UNCHANGED <<pc, input, piped, is_background, i, fd, childpid, fds, err, nread>>

Init ==
  /\ pc = "prompt"
  /\ input = << >>
  /\ piped = << >>
  /\ is_background = FALSE
  /\ i = 0
  /\ fd = << >>
  /\ childpid = 0
  /\ fds = InitFds
  /\ procs = << >>
  /\ err = << >>
  /\ nread = 0

Next ==
  \/ \E line \in Lines : ReadLine(line)
  \/ LoopStep
  \/ LastFork
  \/ Wait
  \/ CloseFd
  \/ ClearScreenReturn
  \/ \E p \in 1..Len(procs) : ChildExit(p)

Spec == Init /\ [][Next]_vars

\* The scheduler runs every process that can take a step, and the user keeps
\* typing: the loop reads a line whenever it is at the prompt.
FairSpec ==
  /\ Spec
  /\ WF_vars(\E line \in Lines : ReadLine(line))
  /\ WF_vars(LoopStep)
  /\ WF_vars(LastFork)
  /\ WF_vars(Wait)
  /\ WF_vars(CloseFd)
  /\ WF_vars(ClearScreenReturn)
  /\ \A p \in 1..MaxProcs : WF_vars(p <= Len(procs) /\ ChildExit(p))

----------------------------------------------------------------------------
(* The shell on foreground pipelines without redirection *)

PlainLines ==
  { <<"a", "b">>,                                            \* ab
    <<"a", "b", "|", "c", "d", "|", "e", "f">>,              \* ab|cd|ef
    L_pwd }

NextPlain ==
  \/ \E line \in PlainLines : ReadLine(line)
  \/ LoopStep
  \/ LastFork
  \/ Wait
  \/ CloseFd
  \/ \E p \in 1..Len(procs) : ChildExit(p)

SpecPlain == Init /\ [][NextPlain]_vars

----------------------------------------------------------------------------
(* The segmenter on every short line: the shell reads one line *)

StringsUpTo(alphabet, n) == UNION {[1..k -> alphabet] : k \in 0..n}

SegAlphabet == {"a", " ", "|", ";", "&", "\""}

Ex_a_b_c == <<"a", " ", "|", " ", "b", " ", "|", " ", "c">>          \* a | b | c
Ex_quoted_pipe ==                                                  \* echo "a|b" | cat
  <<"e", "c", "h", "o", " ", "\"", "a", "|", "b", "\"", " ", "|", " ", "c", "a", "t">>

SegInputs == StringsUpTo(SegAlphabet, MaxSegLen) \cup {Ex_a_b_c, Ex_quoted_pipe}

ReadOneLine(lines) ==
  /\ pc = "prompt"
  /\ nread = 0
  /\ \E line \in lines : ReadLine(line)

NextSeg == ReadOneLine(SegInputs)

SpecSeg == Init /\ [][NextSeg]_vars

----------------------------------------------------------------------------
(* The launcher on every short command: the shell reads one line without a *)
(* separator and forks the child that runs it                              *)

TokAlphabet == {"a", " ", "\"", ">", "<"}

Ex_echo ==                                                  \* echo "hello world" foo
  <<"e", "c", "h", "o", " ", "\"", "h", "e", "l", "l", "o", " ",
    "w", "o", "r", "l", "d", "\"", " ", "f", "o", "o">>
Ex_ls_out ==                                                \* ls -l > out.txt
  <<"l", "s", " ", "-", "l", " ", ">", " ", "o", "u", "t", ".", "t", "x", "t">>
Ex_append == <<"a", "a", " ", ">", ">", " ", "f", "f">>     \* aa >> ff
Ex_in     == <<"a", "a", " ", "<", " ", "f", "f">>          \* aa < ff

TokInputs ==
  StringsUpTo(TokAlphabet, MaxCmdLen) \cup {Ex_echo, Ex_ls_out, Ex_append, Ex_in}

NextTok ==
  \/ ReadOneLine(TokInputs)
  \/ LastFork

SpecTok == Init /\ [][NextTok]_vars

----------------------------------------------------------------------------
(* Vocabulary of the properties *)

Range(s) == {s[k] : k \in 1..Len(s)}

Children == 1..Len(procs)

\* the children forked for the line being run
CurChildren == {p \in Children : procs[p].line = nread}

\* the shell is running the pipeline of the line it read
InPipeline == pc \in {"loop", "last", "wait", "close"}

\* the pipeline of the current line has been launched, every fork succeeding
Launched == pc \in {"wait", "close"} /\ err = << >>

\* the shell has just segmented the line it read
Segmented == nread = 1 /\ pc \in {"loop", "last"}

----------------------------------------------------------------------------
(* C1 *)

\* C1: when the shell has passed the foreground wait of a pipeline whose last
\* fork succeeded, the child running the last segment has exited.
C1_ForegroundWaitsForLast ==
  (pc = "close" /\ ~is_background /\ childpid > 0)
    => procs[childpid].st # "running"

----------------------------------------------------------------------------
(* C2 *)

\* the k-th child (k = 0, 1, ...) forked for the current line
CurChild(k) == procs[Len(procs) - Cardinality(CurChildren) + k + 1]

NoRedirect(c) == ~c.redir_out /\ ~c.redir_in

\* C2: while and after a pipeline of n >= 1 segments is built with every fork
\* succeeding, its children are forked one per segment in segment order (n of
\* them once it is launched); child k < n-1 enters the launcher with standard
\* output = write end of pipe k, child k >= 1 with standard input = read end
\* of pipe k-1, the last child with the standard output of the shell; a child
\* without redirection runs with exactly these.
C2_PipelineWiring ==
  (InPipeline /\ Len(piped) >= 1 /\ err = << >>) =>
    LET n == Len(piped)
        m == Cardinality(CurChildren)
    IN  /\ m = (IF pc \in {"loop", "last"} THEN i ELSE n)
        /\ CurChildren = (Len(procs) - m + 1)..Len(procs)
        /\ \A k \in 0..(m - 1) :
             LET c == CurChild(k)
             IN  /\ c.idx = k
                 /\ c.cmd = piped[k + 1]
                 /\ k < n - 1 => c.out0 = PipeW(<<nread, k>>)
                 /\ k >= 1 => c.in0 = PipeR(<<nread, k - 1>>)
                 /\ k = n - 1 => c.out0 = fds[STDOUT_FILENO + 1]
                 /\ NoRedirect(c) =>
                      /\ c.fds[STDIN_FILENO + 1] = c.in0
                      /\ c.fds[STDOUT_FILENO + 1] = c.out0

\* a three-segment pipeline is launched, every fork having succeeded
C2_Witness ==
  /\ Launched
  /\ Len(piped) = 3
  /\ Cardinality(CurChildren) = 3
  /\ CurChild(1).in0 = PipeR(<<nread, 0>>)
  /\ CurChild(1).out0 = PipeW(<<nread, 1>>)

----------------------------------------------------------------------------
(* C3 *)

IsZombie(p) == p <= Len(procs) /\ procs[p].st = "zombie"
IsReaped(p) == p <= Len(procs) /\ procs[p].st = "reaped"

\* C3: if the read loop keeps coming back to the prompt, every child that has
\* exited is eventually reaped.
C3_ZombiesReaped ==
  ([]<>(pc = "prompt")) => \A p \in 1..MaxProcs : (IsZombie(p) ~> IsReaped(p))

----------------------------------------------------------------------------
(* C4 *)

\* C4: the pipe loop and the last fork only ever run on a segment list of
\* length >= 1.
C4_PipelineNonEmpty == InPipeline => Len(piped) >= 1

----------------------------------------------------------------------------
(* C5 *)

\* C5: the child of a single-segment pipeline without input redirection runs
\* with the original terminal input of the shell as its standard input.
C5_SingleSegmentStdin ==
  \A p \in Children :
    (procs[p].nseg = 1 /\ ~procs[p].redir_in)
      => procs[p].fds[STDIN_FILENO + 1] = TermIn

----------------------------------------------------------------------------
(* C6 *)

\* the argument vectors the children of the segments get
ArgvOf(seg) == ArgsOf(tokenize(seg))

\* C6: for a line without quotes that holds a `&`, the pipeline is background
\* and no argument of any segment's argument vector is `&`.
C6_AmpersandStripped ==
  (Segmented /\ "\"" \notin Range(input) /\ "&" \in Range(input)) =>
    /\ is_background
    /\ \A k \in 1..Len(piped) : <<"&">> \notin Range(ArgvOf(piped[k]))

----------------------------------------------------------------------------
(* C7 *)

IsSeparator(c) == c \in {"|", ";"}

RECURSIVE TrimLeft(_)
TrimLeft(s) == IF Len(s) > 0 /\ s[1] = " " THEN TrimLeft(Tail(s)) ELSE s

RECURSIVE TrimRight(_)
TrimRight(s) ==
  IF Len(s) > 0 /\ s[Len(s)] = " "
  THEN TrimRight(SubSeq(s, 1, Len(s) - 1)) ELSE s

Trim(s) == TrimLeft(TrimRight(s))

\* the pieces of s between its separators
RECURSIVE Cut(_)
Cut(s) ==
  IF \E k \in 1..Len(s) : IsSeparator(s[k])
  THEN LET k == CHOOSE j \in 1..Len(s) :
                  IsSeparator(s[j]) /\ \A h \in 1..(j - 1) : ~IsSeparator(s[h])
       IN  <<SubSeq(s, 1, k - 1)>> \o Cut(SubSeq(s, k + 1, Len(s)))
  ELSE <<s>>

\* the commands of a line: its pieces, trimmed
Commands(s) == [k \in 1..Len(Cut(s)) |-> Trim(Cut(s)[k])]

\* C7: for a line without quotes and without `&` whose commands are all
\* non-empty, the segmenter returns exactly the commands, in order and
\* trimmed, and background is false.
C7_SegmentsAreCommands ==
  ( /\ Segmented
    /\ "\"" \notin Range(input)
    /\ "&" \notin Range(input)
    /\ \A k \in 1..Len(Commands(input)) : Commands(input)[k] # << >> )
  => (piped = Commands(input) /\ ~is_background)

----------------------------------------------------------------------------
(* C8 *)

\* the first position >= k of s that holds a character of cs, or Len(s)
RECURSIVE FirstOf(_, _, _)
FirstOf(s, k, cs) ==
  IF k < Len(s) /\ At(s, k) \notin cs THEN FirstOf(s, k + 1, cs) ELSE k

\* s from position k on read as words separated by single spaces, a word
\* being a run of characters other than space and quote or a quoted span
RECURSIVE Words(_, _)
Words(s, k) ==
  IF k >= Len(s) THEN [ok |-> FALSE, tokens |-> << >>]
  ELSE
    LET quoted == At(s, k) = "\""
        e      == IF quoted THEN FirstOf(s, k + 1, {"\""})
                  ELSE FirstOf(s, k, {" ", "\""})
        word   == IF quoted THEN SubSeq(s, k + 2, e) ELSE SubSeq(s, k + 1, e)
        next   == IF quoted THEN e + 1 ELSE e    \* position after the word
        good   == IF quoted THEN e < Len(s)
                  ELSE e > k /\ At(s, e) # "\""
    IN  IF ~good THEN [ok |-> FALSE, tokens |-> << >>]
        ELSE IF next >= Len(s) THEN [ok |-> TRUE, tokens |-> <<word>>]
        ELSE IF At(s, next) # " " THEN [ok |-> FALSE, tokens |-> << >>]
        ELSE LET r == Words(s, next + 1)
             IN  [ok |-> r.ok, tokens |-> <<word>> \o r.tokens]

\* C8: for a command made of words separated by single spaces, tokenize
\* returns exactly the words, in order, quoted spans without their quotes.
C8_TokensAreWords ==
  \A p \in Children :
    Words(procs[p].cmd, 0).ok
      => procs[p].tokenized = Words(procs[p].cmd, 0).tokens

----------------------------------------------------------------------------
(* C9 *)

\* the redirect the second-to-last token T[n-1] asks for
ExpectedRedirect(T) ==
  LET n == Len(T)
  IN  IF n <= 1 THEN "None"
      ELSE IF T[n - 1] = <<">", ">">> THEN "OutputAppend"
      ELSE IF Len(T[n - 1]) > 0 /\ T[n - 1][1] = ">" THEN "OutputTruncate"
      ELSE IF T[n - 1] = <<"<">> THEN "Input"
      ELSE "None"

\* the redirect the child applied
AppliedRedirect(c) ==
  IF c.redir_out /\ c.redir_in THEN "Both"
  ELSE IF c.redir_out
  THEN (IF c.FFLAGS = FILEFLAGS_APPEND THEN "OutputAppend" ELSE "OutputTruncate")
  ELSE IF c.redir_in THEN "Input"
  ELSE "None"

\* C9: the redirect a child applies is decided by its second-to-last token
\* alone (`>>` append, else a leading `>` truncate, else `<` input), it is
\* attached to the last token, and the argument vector is the tokens without
\* the last two when a redirect matched and all tokens otherwise, followed by
\* the terminating null.
C9_RedirectResolution ==
  \A p \in Children :
    LET c == procs[p]
        T == c.tokenized
        n == Len(T)
        e == ExpectedRedirect(T)
    IN  /\ AppliedRedirect(c) = e
        /\ c.args = (IF e = "None" THEN T ELSE SubSeq(T, 1, n - 2)) \o <<NULL>>
        /\ (e \in {"OutputAppend", "OutputTruncate"} /\ c.open_ok) =>
             /\ c.fds[STDOUT_FILENO + 1] = File(T[n], c.FFLAGS, RW_PERMS)
             /\ c.fds[STDIN_FILENO + 1] = c.in0
        /\ (e = "Input" /\ c.open_ok) =>
             /\ c.fds[STDIN_FILENO + 1] = File(T[n], {"O_RDONLY"}, 0)
             /\ c.fds[STDOUT_FILENO + 1] = c.out0
        /\ e = "None" =>
             /\ c.fds[STDIN_FILENO + 1] = c.in0
             /\ c.fds[STDOUT_FILENO + 1] = c.out0

\* a child with an input redirect and a program name left in its arguments
C9_Witness ==
  \E p \in Children :
    /\ ExpectedRedirect(procs[p].tokenized) = "Input"
    /\ Len(procs[p].args) = 2
    /\ procs[p].open_ok

----------------------------------------------------------------------------
(* C10 *)

\* position k (1-based) of s lies between an opening quote and its closing
\* quote, quotes pairing up from the left
InClosedQuote(s, k) ==
  /\ s[k] # "\""
  /\ Cardinality({j \in 1..(k - 1) : s[j] = "\""}) % 2 = 1
  /\ \E j \in (k + 1)..Len(s) : s[j] = "\""

IsSpecial(c) == c \in {"|", ";", "&"}

\* s with the special characters of its quoted spans replaced by a letter
Mask(s) ==
  [k \in 1..Len(s) |->
     IF InClosedQuote(s, k) /\ IsSpecial(s[k]) THEN "a" ELSE s[k]]

\* x is y but for special characters where y has the letter
SameUpToMask(x, y) ==
  /\ Len(x) = Len(y)
  /\ \A j \in 1..Len(x) : x[j] = y[j] \/ (IsSpecial(x[j]) /\ y[j] = "a")

\* C10: the special characters inside quoted spans count as ordinary ones:
\* the line is cut at the same places, and gets the same background flag, as
\* the line with those characters replaced by a letter; `echo "a|b" | cat`
\* gives two segments, the first holding the quoted `|`.
C10_QuotedNotSeparators ==
  Segmented =>
    LET out == splitByPipe(Mask(input))
        m   == PopBack(out)
    IN  /\ Len(piped) = Len(m)
        /\ \A k \in 1..Len(piped) : SameUpToMask(piped[k], m[k])
        /\ is_background = (out[Len(out)] = <<"&">>)
        /\ input = Ex_quoted_pipe =>
             (Len(piped) = 2 /\ "|" \in Range(piped[1]))

\* the shell has segmented `echo "a|b" | cat`
C10_Witness ==
  /\ Segmented
  /\ input = Ex_quoted_pipe
  /\ Mask(input) # input
  /\ Len(piped) = 2

----------------------------------------------------------------------------
(* C11 *)

OnlySpaces(s) == \A k \in 1..Len(s) : s[k] = " "

\* C11: a command that is empty or consists only of spaces is tokenized to
\* the empty token list.
C11_EmptyTokenList ==
  \A p \in Children :
    OnlySpaces(procs[p].cmd) => procs[p].tokenized = << >>

----------------------------------------------------------------------------
(* The shell on background and foreground lines and on clear *)

BgLines ==
  { <<"a", "b", " ", "&">>,                                  \* ab &
    <<"a", "b", "|", "c", "d">>,                             \* ab|cd
    L_cls }

NextBg ==
  \/ \E line \in BgLines : ReadLine(line)
  \/ LoopStep
  \/ LastFork
  \/ Wait
  \/ CloseFd
  \/ ClearScreenReturn
  \/ \E p \in 1..Len(procs) : ChildExit(p)

SpecBg == Init /\ [][NextBg]_vars

----------------------------------------------------------------------------
(* C12 *)

\* the positions where the shell sleeps until a child has ended
BlockedOnChild == pc \in {"wait", "system"}

----------------------------------------------------------------------------
(* C13 *)

L_colorsp == L_color \o <<" ">>

\* the lines the claim counts as built-ins
IsBuiltin(s) ==
  \/ s \in {L_exit, L_clear, L_cls, L_cd, L_pwd}
  \/ StartsWith(s, L_cdsp)
  \/ StartsWith(s, L_pwdsp)
  \/ StartsWith(s, L_colorsp) /\ Len(s) > Len(L_colorsp)

\* C13: once a built-in line has been read the shell is at the next prompt or
\* has exited: it neither runs the line as a pipeline nor has a child running
\* for it.
C13_BuiltinsStayInShell ==
  IsBuiltin(input) => pc \in {"prompt", "exited"}

----------------------------------------------------------------------------
(* C14 *)

\* C14: every child forked for a segment either replaced its image by execvp
\* or, execvp having failed, reported the launch failure (error 1) and ended
\* by exit with a non-zero status.
C14_ChildExecsOrReportsFailure ==
  \A p \in Children :
    procs[p].nseg >= 1 =>
      \/ procs[p].image = "exec"
      \/ /\ procs[p].image = "failed"
         /\ procs[p].err = <<1>>
         /\ procs[p].status # 0

----------------------------------------------------------------------------
(* C15 *)

\* C15: once a fork has failed at a pipe boundary of a line of two or more
\* segments, the error has been reported and no child is forked for the rest
\* of that line.
C15_NoForkAfterFailure ==
  [][(InPipeline /\ Len(piped) >= 2 /\ err # << >>)
       => (0 \in Range(err) /\ Len(procs') = Len(procs))]_vars

----------------------------------------------------------------------------
(* C16 *)

IsPipeEnd(o) == o.kind \in {"pipe_r", "pipe_w"}

\* the descriptors of the shell when it prints the prompt, after line 69
AtPromptFds == Dup2(fds, ORIG_STDIN, STDIN_FILENO)

\* C16: when the shell prints a prompt none of its descriptors is a pipe end
\* and it has no descriptor open that it did not have at the first prompt.
C16_NoPipeEndAtPrompt ==
  pc = "prompt" =>
    /\ \A d \in 1..Len(AtPromptFds) : ~IsPipeEnd(AtPromptFds[d])
    /\ \A d \in 0..(Len(AtPromptFds) - 1) :
         IsOpen(AtPromptFds, d) => IsOpen(InitFds, d)

----------------------------------------------------------------------------
(* C17 *)

\* C17: a running child holds the write end of pipe i only if it is the child
\* of segment i.
C17_WriteEndOnlyInProducer ==
  \A p \in Children :
    procs[p].st = "running" =>
      \A d \in 1..Len(procs[p].fds) :
        procs[p].fds[d].kind = "pipe_w"
          => procs[p].fds[d].id = <<procs[p].line, procs[p].idx>>

----------------------------------------------------------------------------
(* C18 *)

\* table t has a descriptor open on the read end of pipe k of the current line
HoldsReadEnd(t, k) == \E d \in 1..Len(t) : t[d] = PipeR(<<nread, k>>)

\* C18: once a pipeline is launched, every fork having succeeded, the read
\* end of its pipe k is open in the child of segment k+1 and in no other
\* running child of the line, and not in the shell.
C18_ReadEndOnlyInConsumer ==
  Launched =>
    \A k \in 0..(Len(piped) - 2) :
      /\ ~HoldsReadEnd(fds, k)
      /\ \A p \in CurChildren :
           (procs[p].st = "running" /\ HoldsReadEnd(procs[p].fds, k))
             => procs[p].idx = k + 1

----------------------------------------------------------------------------
(* C19 *)

\* C19: a child whose input redirect names a file that does not exist does
\* not go on to run its program: the failed open ends it with a report.
C19_MissingInputReported ==
  \A p \in Children :
    (procs[p].redir_in /\ ~procs[p].exists) =>
      /\ procs[p].image # "exec"
      /\ procs[p].err # << >>

----------------------------------------------------------------------------
(* C20 *)

\* 0644: owner read and write, group and other read
Perm0644 == {256, 128, 32, 4}

\* C20: a child with an output redirect opens the target with a flag word
\* that holds O_CREAT and not O_EXCL, in truncate and in append mode; the
\* open succeeds whether or not the file exists, and a file it creates gets
\* the permission bits 0644.
C20_OutputTargetCreated ==
  \A p \in Children :
    LET c == procs[p]
    IN  c.redir_out =>
          /\ HasFlag(FlagWord(c.FFLAGS), "O_CREAT")
          /\ ~HasFlag(FlagWord(c.FFLAGS), "O_EXCL")
          /\ c.open_ok
          /\ c.fds[STDOUT_FILENO + 1].kind = "file"
          /\ CreatedMode(c.fds[STDOUT_FILENO + 1].mode) = Perm0644

====
